---- MODULE Spec2Model ----
(***************************************************************************)
(* A model of neo-mmd (src/src/main.rs): init builds the camera, the       *)
(* shader, the material and mesh tables, deploys the imported node tree    *)
(* into the object store with the recursive deploy_parts, and registers    *)
(* the per-frame update handler that moves the camera.                     *)
(*                                                                         *)
(* Numbers are exact integers.  Time is counted in tenths of a second and  *)
(* positions in tenths of a length unit, so that position + delta*z*forward*)
(* stays integral.  Rotations are unit quaternions <<x, y, z, w>> with     *)
(* integer components (the half turns about the coordinate axes), so a     *)
(* frame is only enumerated when its two turn angles are whole half turns. *)
(***************************************************************************)
EXTENDS Integers, Sequences, FiniteSets, TLC

VARIABLES pc, panic, scene, materials, meshes, objects, origin,
          set_parent_calls, stack, ret, handler, keyboard, time_delta,
          frame, ticks

vars == <<pc, panic, scene, materials, meshes, objects, origin,
          set_parent_calls, stack, ret, handler, keyboard, time_delta,
          frame, ticks>>

(* ------------------------------ bounds --------------------------------- *)

\* Largest import tree of the deployment specification.
MaxNodes == 3

\* Largest import tree of the whole-program specification.
MaxNodesInit == 2

\* Frames the engine loop runs in the update specification.
MaxTicks == 2

\* Frames the engine loop runs in the whole-program specification.
MaxTicksInit == 1

\* Meshes in the imported scene's flat mesh list (keys 0 .. NumMeshes - 1).
NumMeshes == 3

(* --------------------------- vectors, quaternions ---------------------- *)

VecAdd(a, b) == <<a[1] + b[1], a[2] + b[2], a[3] + b[3]>>

VecScale(k, a) == <<k * a[1], k * a[2], k * a[3]>>

\* Vec3::UP, Vec3::RIGHT, Vec3::FORWARD
Vec3UP == <<0, 1, 0>>

Vec3RIGHT == <<1, 0, 0>>

Vec3FORWARD == <<0, 0, 1>>

\* Hamilton product a * b.
QuatMul(a, b) ==
    << a[4] * b[1] + a[1] * b[4] + a[2] * b[3] - a[3] * b[2],
       a[4] * b[2] - a[1] * b[3] + a[2] * b[4] + a[3] * b[1],
       a[4] * b[3] + a[1] * b[2] - a[2] * b[1] + a[3] * b[4],
       a[4] * b[4] - a[1] * b[1] - a[2] * b[2] - a[3] * b[3] >>

\* Quat::conjugated
QuatConjugated(q) == <<0 - q[1], 0 - q[2], 0 - q[3], q[4]>>

\* Vec3 * Quat: the vector rotated by the quaternion, q (v, 0) q*.
VecRotate(v, q) ==
    LET p == QuatMul(QuatMul(q, <<v[1], v[2], v[3], 0>>), QuatConjugated(q))
    IN  <<p[1], p[2], p[3]>>

\* A turn angle is kept in tenths of a degree; it is representable when it is
\* a whole number of half turns.
OnLattice(angle) == angle % 1800 = 0

\* sin and cos of half the angle, for whole half turns.
SinHalf(angle) ==
    LET h == (angle \div 1800) % 4
    IN  CASE h = 1 -> 1 [] h = 3 -> 0 - 1 [] OTHER -> 0

CosHalf(angle) ==
    LET h == (angle \div 1800) % 4
    IN  CASE h = 0 -> 1 [] h = 2 -> 0 - 1 [] OTHER -> 0

\* Quat::from_axis_angle(axis, angle)
QuatFromAxisAngle(axis, angle) ==
    << axis[1] * SinHalf(angle), axis[2] * SinHalf(angle),
       axis[3] * SinHalf(angle), CosHalf(angle) >>

ISqrt(n) == CHOOSE r \in 0..n : r * r <= n /\ (r + 1) * (r + 1) > n

(* ------------------------------ matrices ------------------------------- *)

\* The importer's matrix of a translation t, a rotation q and a uniform scale
\* s: rows a, b, c, d, the translation in the fourth column (a4, b4, c4).
ImportMatrix(t, q, s) ==
    LET x == q[1]  y == q[2]  z == q[3]  w == q[4]
    IN  [ a1 |-> s * (1 - 2 * (y * y + z * z)),
          a2 |-> s * 2 * (x * y - z * w),
          a3 |-> s * 2 * (x * z + y * w),
          a4 |-> t[1],
          b1 |-> s * 2 * (x * y + z * w),
          b2 |-> s * (1 - 2 * (x * x + z * z)),
          b3 |-> s * 2 * (y * z - x * w),
          b4 |-> t[2],
          c1 |-> s * 2 * (x * z - y * w),
          c2 |-> s * 2 * (y * z + x * w),
          c3 |-> s * (1 - 2 * (x * x + y * y)),
          c4 |-> t[3],
          d1 |-> 0, d2 |-> 0, d3 |-> 0, d4 |-> 1 ]

\* The importer's rows handed over as they are, without the transposition.
Mat4NewRowMajor(m) ==
    << m.a1, m.a2, m.a3, m.a4, m.b1, m.b2, m.b3, m.b4,
       m.c1, m.c2, m.c3, m.c4, m.d1, m.d2, m.d3, m.d4 >>

\* Mat4::new([a1, b1, c1, d1, a2, ...]): the sixteen elements, column by column.
Mat4New(m) ==
    << m.a1, m.b1, m.c1, m.d1, m.a2, m.b2, m.c2, m.d2,
       m.a3, m.b3, m.c3, m.d3, m.a4, m.b4, m.c4, m.d4 >>

\* Length of an axis-aligned column.
ColumnLength(e, c) ==
    ISqrt(e[4 * c + 1] * e[4 * c + 1] + e[4 * c + 2] * e[4 * c + 2]
          + e[4 * c + 3] * e[4 * c + 3])

\* The quaternion of a rotation matrix r[row][column] (the branch on the trace
\* and then on the largest diagonal element).
QuatFromRotation(r) ==
    LET tr == r[1][1] + r[2][2] + r[3][3]
    IN  IF tr > 0
        THEN LET s == 2 * ISqrt(tr + 1)
             IN  << (r[3][2] - r[2][3]) \div s, (r[1][3] - r[3][1]) \div s,
                    (r[2][1] - r[1][2]) \div s, s \div 4 >>
        ELSE IF r[1][1] > r[2][2] /\ r[1][1] > r[3][3]
        THEN LET s == 2 * ISqrt(1 + r[1][1] - r[2][2] - r[3][3])
             IN  << s \div 4, (r[1][2] + r[2][1]) \div s,
                    (r[1][3] + r[3][1]) \div s, (r[3][2] - r[2][3]) \div s >>
        ELSE IF r[2][2] > r[3][3]
        THEN LET s == 2 * ISqrt(1 + r[2][2] - r[1][1] - r[3][3])
             IN  << (r[1][2] + r[2][1]) \div s, s \div 4,
                    (r[2][3] + r[3][2]) \div s, (r[1][3] - r[3][1]) \div s >>
        ELSE LET s == 2 * ISqrt(1 + r[3][3] - r[1][1] - r[2][2])
             IN  << (r[1][3] + r[3][1]) \div s, (r[2][3] + r[3][2]) \div s,
                    s \div 4, (r[2][1] - r[1][2]) \div s >>

\* Transform::from_mat4: position from the last column, scale from the column
\* lengths, rotation from the columns divided by the scale.
TransformFromMat4(e) ==
    LET sx == ColumnLength(e, 0)
        sy == ColumnLength(e, 1)
        sz == ColumnLength(e, 2)
        r  == << <<e[1] \div sx, e[5] \div sy, e[9] \div sz>>,
                 <<e[2] \div sx, e[6] \div sy, e[10] \div sz>>,
                 <<e[3] \div sx, e[7] \div sy, e[11] \div sz>> >>
    IN  [ position |-> <<e[13], e[14], e[15]>>,
          rotation |-> QuatFromRotation(r),
          scale    |-> <<sx, sy, sz>> ]

\* An Object built with None for its transform.
NoTransform == [position |-> <<0, 0, 0>>, rotation |-> <<0, 0, 0, 0>>, scale |-> <<0, 0, 0>>]

\* An Object built without a MeshRenderer.
NoRenderer == [mesh |-> 0 - 1, material |-> 0]

(* ------------------------- configuration, inputs ----------------------- *)

\* The (name, texture path) pairs init inserts into materials, in order.
MaterialConfig ==
    << [name |-> "Body",       path |-> "Karin_Face.png"],
       [name |-> "body_2",     path |-> "Karin_Body.png"],
       [name |-> "knee-socks", path |-> "Karin_Costume.png"],
       [name |-> "hair",       path |-> "Karin_Hair.png"],
       [name |-> "kemomimi",   path |-> "Karin_Hair.png"],
       [name |-> "tail",       path |-> "Karin_Hair.png"],
       [name |-> "pullover",   path |-> "Karin_Costume.png"],
       [name |-> "shoes",      path |-> "Karin_Costume.png"],
       [name |-> "skirt",      path |-> "Karin_Costume.png"],
       [name |-> "underwear",  path |-> "Karin_Costume.png"] >>

TexturePaths == {MaterialConfig[i].path : i \in DOMAIN MaterialConfig}

\* The material table once every entry is inserted: name -> handle.  The
\* handle of an entry is its position in MaterialConfig (one Material each).
FullMaterials ==
    [n \in {MaterialConfig[i].name : i \in DOMAIN MaterialConfig} |->
        CHOOSE i \in DOMAIN MaterialConfig : MaterialConfig[i].name = n]

\* The mesh data at position i of the imported scene's mesh list.
MeshData(i) == 10 + i

\* meshes: HashMap::from_iter(scene.meshes.into_iter().enumerate()...), the
\* handle of index i wrapping the mesh at position i.
BuildMeshes(list) == [i \in 0 .. Len(list) - 1 |-> list[i + 1]]

\* The keyboard inputs update reads, in the order it reads them.
UpdateInputs == <<"w", "s", "d", "a", "up", "down", "left", "right">>

UpdateInputSet == {UpdateInputs[i] : i \in DOMAIN UpdateInputs}

\* The input names the keyboard may have registered: all, or all but one.
KeyboardLayouts == {UpdateInputSet} \cup {UpdateInputSet \ {k} : k \in UpdateInputSet}

\* time_mgr().delta_time(), in tenths of a second.
Deltas == {0, 1, 15}

\* The nodes an import tree is built from: a name, the mesh references, and
\* the translation t, rotation q and uniform scale s of its transformation.
\* "Armature" has no MaterialConfig entry; NumMeshes is no index of meshes.
NodeKinds ==
    { [name |-> "Armature", meshes |-> <<>>,        t |-> <<0, 0, 0>>, q |-> <<0, 0, 0, 1>>, s |-> 1],
      [name |-> "Body",     meshes |-> <<0>>,       t |-> <<1, 2, 3>>, q |-> <<1, 0, 0, 0>>, s |-> 2],
      [name |-> "hair",     meshes |-> <<2, 1>>,    t |-> <<4, 0, 5>>, q |-> <<0, 1, 0, 0>>, s |-> 1],
      [name |-> "body_2",   meshes |-> <<2, 0, 1>>, t |-> <<0, 6, 0>>, q |-> <<0, 0, 1, 0>>, s |-> 3],
      [name |-> "Armature", meshes |-> <<1>>,       t |-> <<7, 7, 7>>, q |-> <<0, 0, 0, 1>>, s |-> 2],
      [name |-> "Armature", meshes |-> <<0, 1>>,    t |-> <<8, 0, 0>>, q |-> <<1, 0, 0, 0>>, s |-> 1],
      [name |-> "hair",     meshes |-> <<NumMeshes>>, t |-> <<0, 0, 9>>, q |-> <<0, 0, 0, 1>>, s |-> 1] }

\* The parent of every node of a tree of n nodes; node 1 is the root and a
\* node's parent has a smaller number, its children follow in increasing order.
ParentMaps(n) ==
    {p \in [1..n -> 0..n] : p[1] = 0 /\ \A i \in 2..n : p[i] >= 1 /\ p[i] < i}

SortedSeq(S) ==
    CHOOSE q \in [1..Cardinality(S) -> S] :
        \A i, j \in 1..Cardinality(S) : i < j => q[i] < q[j]

\* russimp's Node: name, transformation, meshes, children.
Node(n, p, k, i) ==
    [ name           |-> k[i].name,
      transformation |-> ImportMatrix(k[i].t, k[i].q, k[i].s),
      meshes         |-> k[i].meshes,
      children       |-> SortedSeq({j \in 1..n : p[j] = i}) ]

\* The imported scene of the tree with m nodes, parents p and kinds k.
MakeScene(m, p, k) ==
    [ nodes  |-> [i \in 1..m |-> Node(m, p, k, i)],
      meshes |-> [i \in 1..NumMeshes |-> MeshData(i - 1)] ]

ScenesOf(m) == {MakeScene(m, p, k) : p \in ParentMaps(m), k \in [1..m -> NodeKinds]}

\* The imported scenes whose tree has at most n nodes.
Scenes(n) == UNION {ScenesOf(m) : m \in 1..n}

(* ----------------------------- object store --------------------------- *)

\* object_mgr.create_object_builder(world, Some(name), transform) followed by
\* builder.with(renderer).build(): the new Object is the last of the store and
\* its handle is its position.
CreateObject(objs, name, transform, renderer) ==
    Append(objs, [ name |-> name, transform |-> transform, renderer |-> renderer,
                   parent |-> 0, children |-> <<>> ])

Remove(q, x) == SelectSeq(q, LAMBDA y : y # x)

\* child.set_parent(&parent): the child leaves its old parent's children, if
\* it has one, and becomes the last child of the new parent.
SetParent(objs, child, parent) ==
    LET old      == objs[child].parent
        detached == IF old = 0 THEN objs
                    ELSE [objs EXCEPT ![old].children = Remove(@, child)]
    IN  [detached EXCEPT ![child].parent = parent,
                         ![parent].children = Append(@, child)]

\* object_mgr().find(name): the first Object of that name, 0 for None.
Find(objs, name) ==
    IF \E i \in DOMAIN objs : objs[i].name = name
    THEN CHOOSE i \in DOMAIN objs :
            objs[i].name = name /\ \A j \in DOMAIN objs : objs[j].name = name => i <= j
    ELSE 0

\* The camera's Transform::from_mat4(&look_at), taken on the integer lattice.
CameraStarts ==
    { [position |-> <<0, 10, 20>>, rotation |-> <<0, 0, 0, 1>>, scale |-> <<1, 1, 1>>],
      [position |-> <<5, 0, 0>>,   rotation |-> <<0, 1, 0, 0>>, scale |-> <<1, 1, 1>>] }

\* The store once init has built the camera Object.
CameraStore(t) == CreateObject(<<>>, "camera", t, NoRenderer)

(* ------------------------------- init ---------------------------------- *)

\* The update handler registered before the tree is deployed.
init_stages_handler_first ==
    <<"camera", "shader", "materials", "scene", "handler", "deploy", "run">>

\* The tree deployed before the shader and the materials are built.
init_stages_deploy_first ==
    <<"camera", "scene", "deploy", "shader", "materials", "handler", "run">>

\* The order of init's steps, then the engine loop.
init_stages == <<"camera", "shader", "materials", "scene", "deploy", "handler", "run">>

StageAfter(stage) ==
    init_stages[(CHOOSE i \in DOMAIN init_stages : init_stages[i] = stage) + 1]

Panic(reason) == pc' = "panicked" /\ panic' = reason

\* The keyboard before the first poll: every registered input at 0.
IdleKeyboard(layout) == [k \in layout |-> 0]

\* The scene before the asset is read.
NoScene == [nodes |-> <<>>, meshes |-> <<>>]

\* Camera::new(..) and the "camera" Object with Transform::from_mat4(&look_at).
init_camera ==
    /\ pc = "camera"
    /\ \E t \in CameraStarts : objects' = CameraStore(t)
    /\ origin' = <<[node |-> 0, mesh |-> 0 - 1]>>
    /\ set_parent_calls' = <<0>>
    /\ pc' = StageAfter("camera")
    /\ UNCHANGED <<panic, scene, materials, meshes, stack, ret, handler,
                   keyboard, time_delta, frame, ticks>>

\* create_shader(...).unwrap(): the shader compiles or it does not.
init_shader ==
    /\ pc = "shader"
    /\ \E compiled \in BOOLEAN :
          IF compiled THEN pc' = StageAfter("shader") /\ UNCHANGED panic
                      ELSE Panic("ShaderCompileError")
    /\ UNCHANGED <<scene, materials, meshes, objects, origin, set_parent_calls,
                   stack, ret, handler, keyboard, time_delta, frame, ticks>>

\* materials.insert(name, create_textured_material(&ctx, &shader, path)), the
\* next entry of MaterialConfig; image::open(path).unwrap() opens or does not.
create_textured_material ==
    /\ pc = "materials"
    /\ \E opened \in BOOLEAN :
          LET i == Cardinality(DOMAIN materials) + 1
          IN  IF ~opened
              THEN Panic("ResourceLoadError") /\ UNCHANGED materials
              ELSE /\ materials' = (MaterialConfig[i].name :> i) @@ materials
                   /\ pc' = IF i = Len(MaterialConfig)
                            THEN StageAfter("materials") ELSE pc
                   /\ UNCHANGED panic
    /\ UNCHANGED <<scene, meshes, objects, origin, set_parent_calls,
                   stack, ret, handler, keyboard, time_delta, frame, ticks>>

\* std::fs::read(..).unwrap() and Scene::from_buffer(..).unwrap(): the asset
\* parses to some scene or it does not; then meshes is built from its list.
init_scene(n) ==
    /\ pc = "scene"
    /\ \/ /\ \E sc \in Scenes(n) :
                /\ scene' = sc
                /\ meshes' = BuildMeshes(sc.meshes)
                /\ ret' = [i \in DOMAIN sc.nodes |-> 0]
          /\ pc' = StageAfter("scene")
          /\ UNCHANGED panic
       \/ /\ Panic("ImportParseError")
          /\ UNCHANGED <<scene, meshes, ret>>
    /\ UNCHANGED <<materials, objects, origin, set_parent_calls,
                   stack, handler, keyboard, time_delta, frame, ticks>>

\* ctx.event_mgr().add_handler(EventHandler::<Update>::new(|_| update()))
init_add_handler ==
    /\ pc = "handler"
    /\ handler' = TRUE
    /\ pc' = StageAfter("handler")
    /\ UNCHANGED <<panic, scene, materials, meshes, objects, origin,
                   set_parent_calls, stack, ret, keyboard, time_delta, frame, ticks>>

(* ---------------------------- deploy_parts ----------------------------- *)

\* The activation of deploy_parts for a node: the next child to recurse into,
\* the handles of the children deployed so far, the node's own Object, and the
\* positions of the mesh loop and of the reparent loop.
NewFrame(n) ==
    [ node |-> n, next |-> 1, children |-> <<>>, object |-> 0,
      mesh_index |-> 0, reparent_index |-> 1, phase |-> "children" ]

Top == stack[Len(stack)]

TopNode == scene.nodes[Top.node]

SetTop(f) == [stack EXCEPT ![Len(stack)] = f]

\* The branch taken for every node that has a mesh, not only for one mesh.
SingleMeshBranchAny(node) == Len(node.meshes) >= 1

\* if node.meshes.len() == 1
SingleMeshBranch(node) == Len(node.meshes) = 1

\* The synthetic children numbered from 1.
SyntheticNameFromOne(name, index) == name \o "-mesh-" \o ToString(index + 1)

\* format!("{}-mesh-{}", node.name, index)
SyntheticName(name, index) == name \o "-mesh-" \o ToString(index)

\* The node's own Object built before its children are deployed.
ChildrenDeployedEarly == Top.phase = "children"

\* The children are all deployed: the map over node.children is exhausted.
ChildrenDeployed == Top.phase = "children" /\ Top.next > Len(TopNode.children)

\* The reparent loop walking the children from the last to the first.
ReparentChildReversed(f) == f.children[Len(f.children) + 1 - f.reparent_index]

\* The child handle the reparent loop takes at its current position.
ReparentChild(f) == f.children[f.reparent_index]

\* deploy_parts(&device, &materials, &meshes, &scene.root.unwrap()) in init
deploy_parts_root ==
    /\ pc = "deploy"
    /\ stack = <<>>
    /\ stack' = <<NewFrame(1)>>
    /\ UNCHANGED <<pc, panic, scene, materials, meshes, objects, origin,
                   set_parent_calls, ret, handler, keyboard, time_delta, frame, ticks>>

\* .map(|child| deploy_parts(device, materials, meshes, child))
deploy_parts_recurse ==
    /\ pc = "deploy"
    /\ stack # <<>>
    /\ Top.phase = "children"
    /\ Top.next <= Len(TopNode.children)
    /\ stack' = Append(stack, NewFrame(TopNode.children[Top.next]))
    /\ UNCHANGED <<pc, panic, scene, materials, meshes, objects, origin,
                   set_parent_calls, ret, handler, keyboard, time_delta, frame, ticks>>

\* The branch of a node with exactly one mesh reference.
deploy_parts_single ==
    /\ pc = "deploy"
    /\ stack # <<>>
    /\ ChildrenDeployed
    /\ SingleMeshBranch(TopNode)
    /\ IF TopNode.name \notin DOMAIN materials
       THEN Panic("MaterialNotFound")
            /\ UNCHANGED <<objects, origin, set_parent_calls, stack>>
       ELSE IF TopNode.meshes[1] \notin DOMAIN meshes
       THEN Panic("MeshIndexOutOfRange")
            /\ UNCHANGED <<objects, origin, set_parent_calls, stack>>
       ELSE /\ objects' = CreateObject(objects, TopNode.name,
                              TransformFromMat4(Mat4New(TopNode.transformation)),
                              [ mesh     |-> meshes[TopNode.meshes[1]],
                                material |-> materials[TopNode.name] ])
            /\ origin' = Append(origin, [node |-> Top.node, mesh |-> 0 - 1])
            /\ set_parent_calls' = Append(set_parent_calls, 0)
            /\ stack' = SetTop([Top EXCEPT !.object = Len(objects) + 1,
                                           !.phase = "reparent"])
            /\ UNCHANGED <<pc, panic>>
    /\ UNCHANGED <<scene, materials, meshes, ret, handler, keyboard,
                   time_delta, frame, ticks>>

\* The else branch, up to the mesh loop: the Object of the node itself.
deploy_parts_container ==
    /\ pc = "deploy"
    /\ stack # <<>>
    /\ ChildrenDeployed
    /\ ~SingleMeshBranch(TopNode)
    /\ objects' = CreateObject(objects, TopNode.name,
                      TransformFromMat4(Mat4New(TopNode.transformation)), NoRenderer)
    /\ origin' = Append(origin, [node |-> Top.node, mesh |-> 0 - 1])
    /\ set_parent_calls' = Append(set_parent_calls, 0)
    /\ stack' = SetTop([Top EXCEPT !.object = Len(objects) + 1,
                                   !.phase = IF TopNode.meshes = <<>>
                                             THEN "reparent" ELSE "meshes"])
    /\ UNCHANGED <<pc, panic, scene, materials, meshes, ret, handler,
                   keyboard, time_delta, frame, ticks>>

\* One turn of for (index, &mesh) in node.meshes.iter().enumerate().
deploy_parts_mesh_object ==
    /\ pc = "deploy"
    /\ stack # <<>>
    /\ Top.phase = "meshes"
    /\ LET index == Top.mesh_index
           mesh  == TopNode.meshes[index + 1]
       IN  IF TopNode.name \notin DOMAIN materials
           THEN Panic("MaterialNotFound")
                /\ UNCHANGED <<objects, origin, set_parent_calls, stack>>
           ELSE IF mesh \notin DOMAIN meshes
           THEN Panic("MeshIndexOutOfRange")
                /\ UNCHANGED <<objects, origin, set_parent_calls, stack>>
           ELSE /\ objects' = SetParent(
                                CreateObject(objects, SyntheticName(TopNode.name, index),
                                    NoTransform,
                                    [ mesh     |-> meshes[mesh],
                                      material |-> materials[TopNode.name] ]),
                                Len(objects) + 1, Top.object)
                /\ origin' = Append(origin, [node |-> Top.node, mesh |-> index])
                /\ set_parent_calls' = Append(set_parent_calls, 1)
                /\ stack' = SetTop([Top EXCEPT
                                !.mesh_index = index + 1,
                                !.phase = IF index + 1 = Len(TopNode.meshes)
                                          THEN "reparent" ELSE "meshes"])
                /\ UNCHANGED <<pc, panic>>
    /\ UNCHANGED <<scene, materials, meshes, ret, handler, keyboard,
                   time_delta, frame, ticks>>

\* One turn of for child in children { child.set_parent(&object); }
deploy_parts_reparent ==
    /\ pc = "deploy"
    /\ stack # <<>>
    /\ Top.phase = "reparent"
    /\ Top.reparent_index <= Len(Top.children)
    /\ objects' = SetParent(objects, ReparentChild(Top), Top.object)
    /\ set_parent_calls' = [set_parent_calls EXCEPT ![ReparentChild(Top)] = @ + 1]
    /\ stack' = SetTop([Top EXCEPT !.reparent_index = @ + 1])
    /\ UNCHANGED <<pc, panic, scene, materials, meshes, origin, ret,
                   handler, keyboard, time_delta, frame, ticks>>

\* The frame with the returned handle pushed onto the caller's children.
Returned(caller, object) ==
    [caller EXCEPT !.children = Append(@, object), !.next = @ + 1]

\* object (the last expression): back in the caller's map, or in init.
deploy_parts_return ==
    /\ pc = "deploy"
    /\ stack # <<>>
    /\ Top.phase = "reparent"
    /\ Top.reparent_index > Len(Top.children)
    /\ ret' = [ret EXCEPT ![Top.node] = Top.object]
    /\ IF Len(stack) = 1
       THEN stack' = <<>> /\ pc' = StageAfter("deploy")
       ELSE /\ stack' = [SubSeq(stack, 1, Len(stack) - 1) EXCEPT
                            ![Len(stack) - 1] = Returned(@, Top.object)]
            /\ UNCHANGED pc
    /\ UNCHANGED <<panic, scene, materials, meshes, objects, origin,
                   set_parent_calls, handler, keyboard, time_delta, frame, ticks>>

(* --------------------------- the engine loop --------------------------- *)

\* Most keys held down in one frame of the update specification.
MaxPressed == 2

\* Most keys held down in one frame of the whole-program specification.
MaxPressedInit == 0

\* The key values of a frame: each registered input at 0 or 1, at most
\* `pressed` of them at 1.
KeyStates(layout, pressed) ==
    {k \in [layout -> {0, 1}] : Cardinality({n \in layout : k[n] = 1}) <= pressed}

\* The difference of two inputs where both are registered, else 0.
Axis(kb, plus, minus) ==
    IF plus \in DOMAIN kb /\ minus \in DOMAIN kb THEN kb[plus] - kb[minus] ELSE 0

\* delta * axis * 120 degrees, in tenths of a degree (delta in tenths of a second).
TurnAngle(delta, axis) == delta * axis * 120

\* One iteration of engine.run up to the Update event: the time manager takes
\* the frame's delta and the keyboard its key values.
engine_poll(limit, pressed) ==
    /\ pc = "run"
    /\ frame = "poll"
    /\ ticks < limit
    /\ \E d \in Deltas, k \in KeyStates(DOMAIN keyboard, pressed) :
          /\ OnLattice(TurnAngle(d, Axis(k, "up", "down")))
          /\ OnLattice(TurnAngle(d, Axis(k, "left", "right")))
          /\ time_delta' = d
          /\ keyboard' = k
    /\ frame' = "update"
    /\ ticks' = ticks + 1
    /\ UNCHANGED <<pc, panic, scene, materials, meshes, objects, origin,
                   set_parent_calls, stack, ret, handler>>

\* A missing input read as 0 instead of None.
KeyboardInputOrDefault(kb, name) ==
    [some |-> TRUE, value |-> IF name \in DOMAIN kb THEN kb[name] ELSE 0]

\* keyboard.input(name): Some(input) when the name is registered.
KeyboardInput(kb, name) ==
    IF name \in DOMAIN kb THEN [some |-> TRUE, value |-> kb[name]]
                          ELSE [some |-> FALSE, value |-> 0]

\* The second set_position starting again from the position before the first.
update_position_overwrite(t, delta, z, x, forward, right) ==
    VecAdd(t.position, VecScale(delta * x, right))

\* The two set_position calls; forward and right were read before them.
update_position(t, delta, z, x, forward, right) ==
    LET first == VecAdd(t.position, VecScale(delta * z, forward))
    IN  VecAdd(first, VecScale(delta * x, right))

\* The two set_rotation calls.
update_rotation(t, delta, vertical, horizontal, world_up) ==
    LET first == QuatMul(t.rotation,
                         QuatFromAxisAngle(Vec3RIGHT, TurnAngle(delta, vertical)))
    IN  QuatMul(first, QuatFromAxisAngle(world_up, TurnAngle(delta, horizontal)))

\* Transform::forward and Transform::right of an Object without a parent.
Forward(t) == VecRotate(Vec3FORWARD, t.rotation)

Right(t) == VecRotate(Vec3RIGHT, t.rotation)

\* update(): the eight inputs are unwrapped in order, then the camera is
\* found, then its transform is moved and turned.  A None stops it there.
update_body(objs, kb, delta) ==
    LET in(i)  == KeyboardInput(kb, UpdateInputs[i])
        camera == Find(objs, "camera")
    IN  IF \E i \in DOMAIN UpdateInputs : ~in(i).some
        THEN [ok |-> FALSE, why |-> "InputMissing", objects |-> objs]
        ELSE IF camera = 0
        THEN [ok |-> FALSE, why |-> "CameraNotFound", objects |-> objs]
        ELSE LET z          == in(1).value - in(2).value
                 x          == in(3).value - in(4).value
                 vertical   == in(5).value - in(6).value
                 horizontal == in(7).value - in(8).value
                 t          == objs[camera].transform
                 world_up   == VecRotate(Vec3UP, QuatConjugated(t.rotation))
                 moved      == update_position(t, delta, z, x, Forward(t), Right(t))
                 turned     == update_rotation(t, delta, vertical, horizontal, world_up)
             IN  [ ok |-> TRUE, why |-> "",
                   objects |-> [objs EXCEPT ![camera].transform =
                                   [@ EXCEPT !.position = moved, !.rotation = turned]] ]

\* The Update event reaches the registered handler.
update ==
    /\ pc = "run"
    /\ frame = "update"
    /\ handler
    /\ LET r == update_body(objects, keyboard, time_delta)
       IN  /\ objects' = r.objects
           /\ IF r.ok THEN frame' = "poll" /\ UNCHANGED <<pc, panic>>
                      ELSE Panic(r.why) /\ UNCHANGED frame
    /\ UNCHANGED <<scene, materials, meshes, origin, set_parent_calls, stack,
                   ret, handler, keyboard, time_delta, ticks>>

(* --------------------------- specifications ---------------------------- *)

\* The whole program, from the start of init.
Init ==
    /\ pc = "camera"
    /\ panic = ""
    /\ scene = NoScene
    /\ materials = <<>>
    /\ meshes = <<>>
    /\ objects = <<>>
    /\ origin = <<>>
    /\ set_parent_calls = <<>>
    /\ stack = <<>>
    /\ ret = <<>>
    /\ handler = FALSE
    /\ keyboard = IdleKeyboard(UpdateInputSet)
    /\ time_delta = 0
    /\ frame = "poll"
    /\ ticks = 0

Deploy ==
    \/ deploy_parts_root
    \/ deploy_parts_recurse
    \/ deploy_parts_single
    \/ deploy_parts_container
    \/ deploy_parts_mesh_object
    \/ deploy_parts_reparent
    \/ deploy_parts_return

Next ==
    \/ init_camera
    \/ init_shader
    \/ create_textured_material
    \/ init_scene(MaxNodesInit)
    \/ Deploy
    \/ init_add_handler
    \/ engine_poll(MaxTicksInit, MaxPressedInit)
    \/ update

Spec == Init /\ [][Next]_vars

\* deploy_parts alone: init has reached the call with every table built.
InitDeploy ==
    /\ pc = "deploy"
    /\ panic = ""
    /\ scene \in Scenes(MaxNodes)
    /\ materials = FullMaterials
    /\ meshes = BuildMeshes(scene.meshes)
    /\ \E t \in CameraStarts : objects = CameraStore(t)
    /\ origin = <<[node |-> 0, mesh |-> 0 - 1]>>
    /\ set_parent_calls = <<0>>
    /\ stack = <<>>
    /\ ret = [i \in DOMAIN scene.nodes |-> 0]
    /\ handler = FALSE
    /\ keyboard = IdleKeyboard(UpdateInputSet)
    /\ time_delta = 0
    /\ frame = "poll"
    /\ ticks = 0

SpecDeploy == InitDeploy /\ [][Deploy]_vars

\* The engine loop alone: init has returned, the scene of a single node with
\* no mesh is deployed.
InitUpdate ==
    /\ pc = "run"
    /\ panic = ""
    /\ scene \in {sc \in ScenesOf(1) : sc.nodes[1].meshes = <<>>}
    /\ materials = FullMaterials
    /\ meshes = BuildMeshes(scene.meshes)
    /\ \E t \in CameraStarts :
          objects = CreateObject(CameraStore(t), scene.nodes[1].name,
                        TransformFromMat4(Mat4New(scene.nodes[1].transformation)),
                        NoRenderer)
    /\ origin = <<[node |-> 0, mesh |-> 0 - 1], [node |-> 1, mesh |-> 0 - 1]>>
    /\ set_parent_calls = <<0, 0>>
    /\ stack = <<>>
    /\ ret = <<2>>
    /\ handler = TRUE
    /\ keyboard \in {IdleKeyboard(l) : l \in KeyboardLayouts}
    /\ time_delta = 0
    /\ frame = "poll"
    /\ ticks = 0

NextUpdate == engine_poll(MaxTicks, MaxPressed) \/ update

SpecUpdate == InitUpdate /\ [][NextUpdate]_vars

(* ------------------------------ properties ---------------------------- *)

Nodes == DOMAIN scene.nodes

\* The Objects deploy_parts has created (the camera is init's own).
DeployedObjects == {o \in DOMAIN objects : origin[o].node # 0}

\* The Objects created in the activation for node n.
ObjectsOf(n) == {o \in DeployedObjects : origin[o].node = n}

\* The synthetic children created for node n.
SyntheticOf(n) == {o \in ObjectsOf(n) : origin[o].mesh >= 0}

ChildSet(n) == {scene.nodes[n].children[i] : i \in DOMAIN scene.nodes[n].children}

RECURSIVE SubtreeOf(_)
SubtreeOf(n) == {n} \cup UNION {SubtreeOf(c) : c \in ChildSet(n)}

\* deploy_parts has returned for node n.
HasReturned(n) == ret # <<>> /\ ret[n] # 0

\* deploy_parts has returned for the root.
DeployCompleted == scene # NoScene /\ HasReturned(1)

\* 1 for a node with at most one mesh reference, 1 + mesh-count otherwise.
ObjectsExpected(n) ==
    IF Len(scene.nodes[n].meshes) <= 1 THEN 1 ELSE 1 + Len(scene.nodes[n].meshes)

RECURSIVE SumExpected(_)
SumExpected(S) ==
    IF S = {} THEN 0
    ELSE LET n == CHOOSE x \in S : TRUE IN ObjectsExpected(n) + SumExpected(S \ {n})

\* The translation, rotation and scale the node's transformation was made of.
AuthoredTransform(node) ==
    LET k == CHOOSE k \in NodeKinds :
                 /\ k.name = node.name
                 /\ k.meshes = node.meshes
                 /\ ImportMatrix(k.t, k.q, k.s) = node.transformation
    IN  [position |-> k.t, rotation |-> k.q, scale |-> <<k.s, k.s, k.s>>]

\* The handle of the material configured under a name.
MaterialOf(name) ==
    CHOOSE i \in DOMAIN MaterialConfig : MaterialConfig[i].name = name

\* The binding of the mesh at an index of the scene's list with a name's material.
BindingOf(index, name) ==
    [mesh |-> scene.meshes[index + 1], material |-> MaterialOf(name)]

\* C1: once deploy_parts has completed on a tree, the Objects it created
\* number the sum over the nodes of 1 for a node with zero or one mesh
\* reference and 1 + mesh-count for a node with two or more.
C1_ObjectCount ==
    DeployCompleted => Cardinality(DeployedObjects) = SumExpected(Nodes)

\* Reached: a completed tree with a node of no mesh, of one and of three.
C1_Witness ==
    /\ DeployCompleted
    /\ \E a, b, c \in Nodes :
          /\ Len(scene.nodes[a].meshes) = 0
          /\ Len(scene.nodes[b].meshes) = 1
          /\ Len(scene.nodes[c].meshes) = 3

\* The node being deployed when deploy_parts stopped.
FailingNode == Top.node

\* C2: when deploy_parts stops with MaterialNotFound at a node, no Object of
\* that node's subtree (its own Object, its synthetic children, the Objects
\* of its descendants) exists in the object store.
C2_NoObjectOfFailedSubtree ==
    (pc = "panicked" /\ panic = "MaterialNotFound") =>
        \A n \in SubtreeOf(FailingNode) : ObjectsOf(n) = {}

\* C3: a node with exactly one mesh reference gets exactly one Object, named
\* after it, with the node's decomposed transform and the binding of
\* MeshTable[its mesh index] with MaterialTable[its name], and no synthetic child.
C3_SingleMeshNode ==
    \A n \in Nodes :
        (HasReturned(n) /\ Len(scene.nodes[n].meshes) = 1) =>
            LET node == scene.nodes[n]
                o    == objects[ret[n]]
            IN  /\ ObjectsOf(n) = {ret[n]}
                /\ SyntheticOf(n) = {}
                /\ o.name = node.name
                /\ o.transform = AuthoredTransform(node)
                /\ o.renderer = BindingOf(node.meshes[1], node.name)
                /\ \A c \in DOMAIN objects :
                      objects[c].parent = ret[n] => origin[c].node \in ChildSet(n)

\* Reached: a returned single-mesh node.
C3_Witness ==
    \E n \in Nodes : HasReturned(n) /\ Len(scene.nodes[n].meshes) = 1

\* C4: a node with two or more mesh references gets a container with the
\* node's decomposed transform and no binding, and for the reference at each
\* position i one synthetic child "<name>-mesh-<i>" without a transform of
\* its own, bound to MeshTable[that index] and MaterialTable[name], whose
\* parent is the container; the synthetic children follow the positions.
C4_MultiMeshNode ==
    \A n \in Nodes :
        (HasReturned(n) /\ Len(scene.nodes[n].meshes) >= 2) =>
            LET node == scene.nodes[n]
                c    == ret[n]
            IN  /\ origin[c] = [node |-> n, mesh |-> 0 - 1]
                /\ objects[c].name = node.name
                /\ objects[c].transform = AuthoredTransform(node)
                /\ objects[c].renderer = NoRenderer
                /\ Cardinality(SyntheticOf(n)) = Len(node.meshes)
                /\ \A i \in 0 .. Len(node.meshes) - 1 :
                      \E o \in SyntheticOf(n) :
                          /\ origin[o].mesh = i
                          /\ objects[o].name = node.name \o "-mesh-" \o ToString(i)
                          /\ objects[o].transform = NoTransform
                          /\ objects[o].renderer = BindingOf(node.meshes[i + 1], node.name)
                          /\ objects[o].parent = c
                          /\ Len(objects[c].children) >= i + 1
                          /\ objects[c].children[i + 1] = o

\* Reached: a returned node with three mesh references.
C4_Witness ==
    \E n \in Nodes : HasReturned(n) /\ Len(scene.nodes[n].meshes) = 3

\* The handles returned for the children of node n, in the child list's order.
ChildHandles(n) ==
    [i \in DOMAIN scene.nodes[n].children |-> ret[scene.nodes[n].children[i]]]

\* C5: the Object returned for a child has the Object returned for its node
\* as parent, the children are attached in the order of the node's child
\* list, and after completion the root's Object has no parent.
C5_ChildrenReparented ==
    /\ \A n \in Nodes :
          HasReturned(n) =>
              /\ \A c \in ChildSet(n) : objects[ret[c]].parent = ret[n]
              /\ SelectSeq(objects[ret[n]].children,
                           LAMBDA o : \E c \in ChildSet(n) : o = ret[c])
                   = ChildHandles(n)
    /\ DeployCompleted => objects[ret[1]].parent = 0

\* Reached: a completed tree whose root has two children.
C5_Witness ==
    /\ DeployCompleted
    /\ Len(scene.nodes[1].children) = 2
    /\ objects[ret[1]].parent = 0

\* Every node has returned, with all of its Objects created, and every
\* deployed Object but the root's has been given its parent.
DeploymentFinished ==
    /\ DeployCompleted
    /\ stack = <<>>
    /\ \A n \in Nodes :
          HasReturned(n) /\ Cardinality(ObjectsOf(n)) = ObjectsExpected(n)
    /\ \A o \in DeployedObjects \ {ret[1]} :
          objects[o].parent # 0 /\ set_parent_calls[o] = 1

DeployFailures == {"MaterialNotFound", "MeshIndexOutOfRange"}

\* C6: the update handler is registered only once the whole tree is deployed
\* (every Object created, every set_parent applied), update runs only with
\* the handler registered, and after a failed deployment the handler is not
\* registered.
C6_DeployBeforeUpdate ==
    /\ handler => DeploymentFinished
    /\ (frame = "update" \/ ticks > 0) => (handler /\ pc \in {"run", "panicked"})
    /\ panic \in DeployFailures => ~handler

\* Reached: update has run on a deployed tree of several Objects.
C6_Witness ==
    /\ pc = "run"
    /\ frame = "poll"
    /\ ticks = 1
    /\ time_delta > 0
    /\ Cardinality(DeployedObjects) >= 4

\* C7: when the shader does not compile or a texture does not load, setup
\* stops before deploy_parts is called: no Object of an import node exists.
C7_NoDeployAfterResourceFailure ==
    panic \in {"ShaderCompileError", "ResourceLoadError"} =>
        /\ DeployedObjects = {}
        /\ stack = <<>>
        /\ ret = <<>> \/ \A n \in Nodes : ret[n] = 0
        /\ ~handler

\* Reached: a texture fails to load after others were loaded.
C7_Witness ==
    /\ panic = "ResourceLoadError"
    /\ Cardinality(DOMAIN materials) >= 2
    /\ Len(objects) = 1

\* C8: an update tick in which one of the eight inputs is missing stops with
\* a panic and leaves every Object, the camera's transform included, as it was.
C8_MissingInputIsFatal ==
    [][ (pc = "run" /\ frame = "update" /\ DOMAIN keyboard # UpdateInputSet)
           => (pc' = "panicked" /\ panic' = "InputMissing" /\ objects' = objects) ]_vars

\* Reached: update has stopped on a missing input in a frame whose other
\* inputs would have moved the camera.
C8_Witness ==
    /\ pc = "panicked"
    /\ panic = "InputMissing"
    /\ time_delta > 0
    /\ "up" \notin DOMAIN keyboard
    /\ keyboard["w"] = 1

\* The camera's transform in a store.
CameraOf(objs) == objs[Find(objs, "camera")].transform

\* C9: an update tick with delta d whose net up/down and left/right inputs
\* are zero leaves the camera's rotation as it was and moves its position by
\* d*(w-s)*forward + d*(d_key-a_key)*right, forward and right being those at
\* the start of the tick; with w = 1, s = d = a = 0 and d = 0.1 s the move
\* is 0.1*forward (one tenth: 1 in the position's unit).
C9_MoveWithoutTurn ==
    [][ ( /\ pc = "run"
          /\ frame = "update"
          /\ DOMAIN keyboard = UpdateInputSet
          /\ keyboard["up"] - keyboard["down"] = 0
          /\ keyboard["left"] - keyboard["right"] = 0 )
        => LET t     == CameraOf(objects)
               after == CameraOf(objects')
               z     == keyboard["w"] - keyboard["s"]
               x     == keyboard["d"] - keyboard["a"]
           IN  /\ pc' = "run"
               /\ after.rotation = t.rotation
               /\ after.position =
                     VecAdd(VecAdd(t.position, VecScale(time_delta * z, Forward(t))),
                            VecScale(time_delta * x, Right(t)))
               /\ (z = 1 /\ x = 0 /\ keyboard["s"] = 0 /\ keyboard["a"] = 0
                   /\ time_delta = 1)
                     => after.position = VecAdd(t.position, Forward(t)) ]_vars

\* Reached: the first tick, of 0.1 s with only "w" held, has moved a camera
\* from its start by its forward vector.
C9_Witness ==
    /\ pc = "run"
    /\ frame = "poll"
    /\ ticks = 1
    /\ time_delta = 1
    /\ DOMAIN keyboard = UpdateInputSet
    /\ \A k \in UpdateInputSet : keyboard[k] = IF k = "w" THEN 1 ELSE 0
    /\ \E t \in CameraStarts :
          /\ CameraOf(objects).position = VecAdd(t.position, Forward(t))
          /\ CameraOf(objects).rotation = t.rotation

\* Following the parents from an Object ends at an Object without a parent.
RECURSIVE ReachesRoot(_, _)
ReachesRoot(o, fuel) ==
    IF objects[o].parent = 0 THEN TRUE
    ELSE IF fuel = 0 THEN FALSE
    ELSE ReachesRoot(objects[o].parent, fuel - 1)

\* The Object built for node n itself (not a synthetic child), if built.
OwnObjects(n) == {o \in ObjectsOf(n) : origin[o].mesh < 0}

\* C10: at every step of deploy_parts the parents of the Objects it created
\* form a forest (an Object is in the children of its parent and of no other
\* Object, and no chain of parents comes back), set_parent was applied at
\* most once to any Object, a node's own Object exists only once every Object
\* of its descendants does, and on completion the root's Object is the only
\* deployed Object without a parent.
C10_ForestPostOrder ==
    /\ \A o \in DeployedObjects :
          /\ set_parent_calls[o] <= 1
          /\ ReachesRoot(o, Len(objects))
          /\ \A p \in DOMAIN objects :
                LET times == Cardinality({i \in DOMAIN objects[p].children :
                                             objects[p].children[i] = o})
                IN  times = IF objects[o].parent = p THEN 1 ELSE 0
    /\ \A n \in Nodes : \A c \in OwnObjects(n) :
          \A d \in SubtreeOf(n) \ {n} :
              /\ HasReturned(d)
              /\ Cardinality(ObjectsOf(d)) = ObjectsExpected(d)
              /\ \A o \in ObjectsOf(d) : o < c
    /\ DeployCompleted =>
          {o \in DeployedObjects : objects[o].parent = 0} = {ret[1]}

\* Reached: a completed chain of three nodes, one of them with several meshes.
C10_Witness ==
    /\ DeployCompleted
    /\ Cardinality(Nodes) = 3
    /\ scene.nodes[2].children # <<>>
    /\ \E n \in Nodes : Len(scene.nodes[n].meshes) >= 2

====
